---- MODULE Spec2Model ----
(***************************************************************************)
(* KernelView-Go: the concurrent fact-collection orchestrator              *)
(* (gather.GetSystemInfo) and the probes it runs, modelled from            *)
(* src/gather/gather.go.                                                   *)
(*                                                                         *)
(* Go strings are modelled as sequences of byte values (ASCII codes), so   *)
(* that strconv.Itoa / strconv.Atoi, strings.Join and sort.Strings are     *)
(* computed the way the code computes them.  Text(b) renders such a        *)
(* sequence as a TLA+ string for the SystemInfo fields.                    *)
(***************************************************************************)
EXTENDS Integers, Sequences, FiniteSets, TLC

VARIABLES
  \* ---- environment: what the host answers to the probes' queries
  goos,        \* runtime.GOOS
  failing,     \* the set of underlying sources that fail during this pass
  lookPath,    \* the executables exec.LookPath resolves
  cmdOut,      \* package manager -> raw output of its count command
  conns,       \* psnet.Connections("tcp"): sequence of sockets
  uptime,      \* host.Info().Uptime, in seconds
  environ,     \* os.Getenv: environment variable -> value, << >> when unset
  argv,        \* os.Args[1:], the command line of the program
  \* ---- GetSystemInfo
  isFast,      \* the mode argument
  pc,          \* position of the GetSystemInfo goroutine
  iter,        \* keys the current `for ... range` loop has still to visit
  wg,          \* counter of GetSystemInfo's sync.WaitGroup
  task,        \* probe goroutine -> "new" | "run" | "done", and in the stepwise
               \* specification also "mid", with suspension also "blocked"
  queue,       \* the started, unfinished goroutines, oldest first
  info,        \* the SystemInfo record
  writes,      \* field -> sequence of the goroutines that assigned it
  reads,       \* set of <<goroutine, field>>: reads of SystemInfo fields
  \* ---- getOpenPorts
  portsPc, portsOut,
  \* ---- getInstalledLanguages
  langPc, langIter, langWg, langTask, mu, installed, langLocal, langOut,
  \* ---- getPackageCounts
  pkgPc, pkgIter, pkgWg, pkgTask, results, closed, parts, pkgOut,
  \* ---- main and DisplaySystemInfo
  cliPc,       \* position of main
  output,      \* the lines written to the terminal so far
  exitCode     \* the exit status of the process, -1 while it runs

envVars   == <<goos, failing, lookPath, cmdOut, conns, uptime, environ, argv>>
mainVars  == <<isFast, pc, iter, wg, task, queue, info, writes, reads>>
portVars  == <<portsPc, portsOut>>
langVars  == <<langPc, langIter, langWg, langTask, mu, installed, langLocal, langOut>>
pkgVars   == <<pkgPc, pkgIter, pkgWg, pkgTask, results, closed, parts, pkgOut>>
cliVars   == <<cliPc, output, exitCode>>
vars      == <<envVars, mainVars, portVars, langVars, pkgVars, cliVars>>

-----------------------------------------------------------------------------
(* Bounds of the model *)

\* how many ports of PortList the socket inputs of getOpenPorts range over
NumPorts == 6

\* how many of the outputs of OutputList the count commands range over
NumOutputs == 3

\* how many starting keys of a range loop over a map are explored
MapSeeds == 2

\* the scheduler of the model: the goroutine that finishes next is one of the
\* Procs oldest unfinished ones
Procs == 2

-----------------------------------------------------------------------------
(* Go strings as byte sequences *)

\* the printable ASCII characters, code 32 first (quote characters, the
\* backslash and the backtick, which no probe output of the model holds, as ?)
AsciiTable ==
  << " ", "!", "?", "#", "$", "%", "&", "?", "(", ")", "*", "+", ",", "-", ".", "/",
     "0", "1", "2", "3", "4", "5", "6", "7", "8", "9", ":", ";", "<", "=", ">", "?",
     "@", "A", "B", "C", "D", "E", "F", "G", "H", "I", "J", "K", "L", "M", "N", "O",
     "P", "Q", "R", "S", "T", "U", "V", "W", "X", "Y", "Z", "[", "?", "]", "^", "_",
     "?", "a", "b", "c", "d", "e", "f", "g", "h", "i", "j", "k", "l", "m", "n", "o",
     "p", "q", "r", "s", "t", "u", "v", "w", "x", "y", "z", "{", "|", "}", "~" >>

Chr(c) == AsciiTable[c - 31]

\* the element of a singleton set; The({ e(v) : v \in {x} }) is e(x) with the
\* argument x evaluated once, which the recursive operators below rely on
The(S) == CHOOSE v \in S : TRUE

RECURSIVE Text(_)
Text(b) ==
  The({ IF v = <<>> THEN "" ELSE Chr(Head(v)) \o Text(Tail(v)) : v \in {b} })

\* string literals of the source, as bytes
bCommaSpace == <<44, 32>>                      \* ", "
bEllipsis   == <<46, 46, 46>>                  \* "..."
bNone       == <<78, 111, 110, 101>>           \* "None"
bUnknown    == <<85, 110, 107, 110, 111, 119, 110>>  \* "Unknown"
bNoneDetected == <<78, 111, 110, 101, 32, 100, 101, 116, 101, 99, 116, 101, 100>> \* "None detected"

IsDigit(c) == c >= 48 /\ c <= 57

\* strconv.Itoa for n >= 0
RECURSIVE Itoa(_)
Itoa(n) ==
  The({ IF v < 10 THEN <<48 + v>> ELSE Itoa(v \div 10) \o <<48 + (v % 10)>> : v \in {n} })

\* the value of a string of decimal digits
RECURSIVE DigitsValue(_)
DigitsValue(b) ==
  The({ IF v = <<>> THEN 0
        ELSE 10 * DigitsValue(SubSeq(v, 1, Len(v) - 1)) + (v[Len(v)] - 48) : v \in {b} })

\* strconv.Atoi: [ok, val]; an optional sign, then one or more digits
Atoi(b) ==
  The({ LET signed == v # <<>> /\ (v[1] = 43 \/ v[1] = 45)
            digits == IF signed THEN Tail(v) ELSE v
            ok     == digits # <<>> /\ \A i \in 1..Len(digits) : IsDigit(digits[i])
        IN  IF ~ok THEN [ok |-> FALSE, val |-> 0]
            ELSE [ok |-> TRUE,
                  val |-> IF signed /\ v[1] = 45 THEN 0 - DigitsValue(digits)
                          ELSE DigitsValue(digits)] : v \in {b} })

\* strings.Join
RECURSIVE Join(_, _)
Join(elems, sep) ==
  The({ IF e = <<>> THEN <<>>
        ELSE IF Len(e) = 1 THEN e[1]
        ELSE e[1] \o sep \o Join(Tail(e), sep) : e \in {elems} })

\* a < b in the string order of Go (bytewise lexicographic)
RECURSIVE StrLess(_, _)
StrLess(a, b) ==
  IF b = <<>> THEN FALSE
  ELSE IF a = <<>> THEN TRUE
  ELSE IF a[1] # b[1] THEN a[1] < b[1]
  ELSE StrLess(Tail(a), Tail(b))

\* insert x into the sorted sequence s
RECURSIVE InsertStr(_, _)
InsertStr(x, s) ==
  The({ IF v = <<>> THEN <<x>>
        ELSE IF StrLess(x, v[1]) THEN <<x>> \o v
        ELSE <<v[1]>> \o InsertStr(x, Tail(v)) : v \in {s} })

\* sort.Strings
RECURSIVE SortStrings(_)
SortStrings(s) ==
  The({ IF v = <<>> THEN <<>> ELSE InsertStr(v[1], SortStrings(Tail(v))) : v \in {s} })

RECURSIVE InsertInt(_, _)
InsertInt(x, s) ==
  The({ IF v = <<>> THEN <<x>>
        ELSE IF x < v[1] THEN <<x>> \o v
        ELSE <<v[1]>> \o InsertInt(x, Tail(v)) : v \in {s} })

\* sort.Ints
RECURSIVE SortInts(_)
SortInts(s) ==
  The({ IF v = <<>> THEN <<>> ELSE InsertInt(v[1], SortInts(Tail(v))) : v \in {s} })

\* some enumeration of a finite set, as a `for ... range` over a map yields
RECURSIVE SeqOfSet(_)
SeqOfSet(S) ==
  The({ IF V = {} THEN <<>>
        ELSE The({ <<x>> \o SeqOfSet(V \ {x}) : x \in { The(V) } }) : V \in {S} })

-----------------------------------------------------------------------------
(* getOpenPorts *)

\* the condition under which a socket's port is recorded
PortFilter(conn) == conn.status = "LISTEN" /\ conn.ip # "::" /\ conn.ip # "0.0.0.0"

\* portSet: the keys are the ports as decimal strings
PortSet(cs) == { Itoa(cs[i].port) : i \in { j \in 1..Len(cs) : PortFilter(cs[j]) } }

\* the display limit
PortsLimit == 5

\* the truncation taken at five ports already
FormatPortsAtLimit(portStrings) ==
  IF Len(portStrings) >= PortsLimit
    THEN Join(SubSeq(portStrings, 1, PortsLimit), bCommaSpace) \o bEllipsis
    ELSE Join(portStrings, bCommaSpace)

\* portStrings, joined and truncated
FormatPorts(portStrings) ==
  IF Len(portStrings) > PortsLimit
    THEN Join(SubSeq(portStrings, 1, PortsLimit), bCommaSpace) \o bEllipsis
    ELSE Join(portStrings, bCommaSpace)

getOpenPorts(err, cs) ==
  IF err THEN bUnknown
  ELSE LET portSet == PortSet(cs)
       IN  IF portSet = {} THEN bNone
           ELSE LET ports == SortInts(SeqOfSet({ Atoi(pStr).val : pStr \in portSet }))
                    portStrings == [i \in 1..Len(ports) |-> Itoa(ports[i])]
                IN  FormatPorts(portStrings)

-----------------------------------------------------------------------------
(* The SystemInfo record and the probes of GetSystemInfo *)

\* the fields of SystemInfo
Fields ==
  { "OS", "Kernel", "Uptime", "Shell", "CPU", "CoresThreads", "CPUSpeed", "CPUUsage",
    "GPU", "RAM", "Disk", "Swap", "Hostname", "IPAddress", "OpenPorts", "Locale",
    "Resolution", "WindowManager", "DE", "Terminal", "Packages", "Languages", "Go",
    "Virtualization", "Temperature" }

\* info := &SystemInfo{}: every field the empty string
ZeroInfo == [f \in Fields |-> ""]

\* the three grouped probes started by name
GroupTasks == { "Host", "CPU", "Memory" }

\* the keys of the fastTasks map, in the order the literal lists them
FastKeys ==
  << "Shell", "GPU", "Disk", "IPAddress", "Locale", "Resolution", "WindowManager",
     "DE", "Terminal", "Go", "Virtualization" >>

\* the keys of the slowTasks map, in the order the literal lists them
SlowKeys == << "OpenPorts", "Packages", "Languages", "Temperature" >>

Range(s) == { s[i] : i \in 1..Len(s) }

Tasks == GroupTasks \cup Range(FastKeys) \cup Range(SlowKeys)

\* a map literal with a copied entry: "DE" pointing at info.WindowManager
FastTaskPtrCopied(key) == IF key = "DE" THEN "WindowManager" ELSE key

\* fastTasks[key]: the field the goroutine started for key writes through p
FastTaskPtr(key) == key

\* slowTasks[key]
SlowTaskPtr(key) == key

\* the fields each probe goroutine has as assignment targets
TaskTargets(t) ==
  CASE t = "Host"   -> { "Uptime", "OS", "Kernel", "Hostname" }
    [] t = "CPU"    -> { "CPU", "CPUSpeed", "CoresThreads", "CPUUsage" }
    [] t = "Memory" -> { "RAM", "Swap" }
    [] t \in Range(FastKeys) -> { FastTaskPtr(t) }
    [] t \in Range(SlowKeys) -> { SlowTaskPtr(t) }

\* the underlying source whose failure each standalone probe function reports
SourceOf(key) ==
  CASE key = "Shell"          -> "env.SHELL"
    [] key = "GPU"            -> "lspci"
    [] key = "Disk"           -> "disk.Usage"
    [] key = "IPAddress"      -> "net.Dial"
    [] key = "Locale"         -> "env.LANG"
    [] key = "Resolution"     -> "env.DISPLAY"
    [] key = "WindowManager"  -> "env.DESKTOP_SESSION"
    [] key = "DE"             -> "env.XDG_CURRENT_DESKTOP"
    [] key = "Terminal"       -> "env.TERM"
    [] key = "Go"             -> "runtime.Version"
    [] key = "Virtualization" -> "host.Virtualization"
    [] key = "OpenPorts"      -> "net.Connections"
    [] key = "Packages"       -> "exec.LookPath"
    [] key = "Languages"      -> "exec.LookPath"
    [] key = "Temperature"    -> "host.SensorsTemperatures"

\* every source a probe of GetSystemInfo queries
Sources ==
  { "host.Info", "os.Hostname", "cpu.Info", "cpu.Counts", "cpu.Percent",
    "mem.VirtualMemory", "mem.SwapMemory" } \cup { SourceOf(k) : k \in Tasks \ GroupTasks }

Failed(src) == src \in failing

-----------------------------------------------------------------------------
(* getInstalledLanguages: the sequential parts *)

\* langs, in slice order: "Python", "Go", "Node", "Rust", "Java", "Ruby", "PHP"
Langs ==
  << <<80, 121, 116, 104, 111, 110>>,
     <<71, 111>>,
     <<78, 111, 100, 101>>,
     <<82, 117, 115, 116>>,
     <<74, 97, 118, 97>>,
     <<82, 117, 98, 121>>,
     <<80, 72, 80>> >>

\* cmds[l]: "Python": "python3", "Go": "go", "Node": "node", "Rust": "rustc",
\* "Java": "java", "Ruby": "ruby", "PHP": "php"
LangCmd(l) ==
  << "python3", "go", "node", "rustc", "java", "ruby", "php" >>
    [CHOOSE i \in 1..Len(Langs) : Langs[i] = l]

\* exec.LookPath(name) returns no error
LookPathOk(name) == name \in lookPath /\ ~Failed("exec.LookPath")

\* what getInstalledLanguages does after wg.Wait() with the list the goroutines built
LanguagesReturn(list) ==
  LET sorted == SortStrings(list)
  IN  IF Len(sorted) = 0 THEN bNone ELSE Join(sorted, bCommaSpace)

-----------------------------------------------------------------------------
(* getPackageCounts: the sequential parts *)

\* the checkers map of the current GOOS, as a sequence of entries; the default
\* branch (any other GOOS) returns before any checker exists
Checkers(os) ==
  CASE os = "linux" ->
         <<
            \* "APT": "dpkg-query -f . -W | wc -l"
            [name |-> <<65, 80, 84>>,
             cmd |-> << 100, 112, 107, 103, 45, 113, 117, 101, 114, 121, 32, 45, 102,
                  32, 46, 32, 45, 87, 32, 124, 32, 119, 99, 32, 45, 108 >>],
            \* "Pacman": "pacman -Qq --color never | wc -l"
            [name |-> <<80, 97, 99, 109, 97, 110>>,
             cmd |-> << 112, 97, 99, 109, 97, 110, 32, 45, 81, 113, 32, 45, 45, 99,
                  111, 108, 111, 114, 32, 110, 101, 118, 101, 114, 32, 124, 32, 119,
                  99, 32, 45, 108 >>],
            \* "DNF": "dnf list installed --quiet | wc -l"
            [name |-> <<68, 78, 70>>,
             cmd |-> << 100, 110, 102, 32, 108, 105, 115, 116, 32, 105, 110, 115, 116,
                  97, 108, 108, 101, 100, 32, 45, 45, 113, 117, 105, 101, 116, 32,
                  124, 32, 119, 99, 32, 45, 108 >>],
            \* "Flatpak": "flatpak list --app --columns=application | wc -l"
            [name |-> <<70, 108, 97, 116, 112, 97, 107>>,
             cmd |-> << 102, 108, 97, 116, 112, 97, 107, 32, 108, 105, 115, 116, 32,
                  45, 45, 97, 112, 112, 32, 45, 45, 99, 111, 108, 117, 109, 110,
                  115, 61, 97, 112, 112, 108, 105, 99, 97, 116, 105, 111, 110, 32,
                  124, 32, 119, 99, 32, 45, 108 >>],
            \* "Snap": "snap list | tail -n +2 | wc -l"
            [name |-> <<83, 110, 97, 112>>,
             cmd |-> << 115, 110, 97, 112, 32, 108, 105, 115, 116, 32, 124, 32, 116,
                  97, 105, 108, 32, 45, 110, 32, 43, 50, 32, 124, 32, 119, 99, 32,
                  45, 108 >>] >>
    [] os = "darwin" ->
         <<
            \* "Brew": "brew list --formula | wc -l"
            [name |-> <<66, 114, 101, 119>>,
             cmd |-> << 98, 114, 101, 119, 32, 108, 105, 115, 116, 32, 45, 45, 102,
                  111, 114, 109, 117, 108, 97, 32, 124, 32, 119, 99, 32, 45, 108 >>],
            \* "Cask": "brew list --cask | wc -l"
            [name |-> <<67, 97, 115, 107>>,
             cmd |-> << 98, 114, 101, 119, 32, 108, 105, 115, 116, 32, 45, 45, 99, 97,
                  115, 107, 32, 124, 32, 119, 99, 32, 45, 108 >>] >>
    [] os = "windows" ->
         <<
            \* "Choco": "(choco list -l | Measure-Object).Count"
            [name |-> <<67, 104, 111, 99, 111>>,
             cmd |-> << 40, 99, 104, 111, 99, 111, 32, 108, 105, 115, 116, 32, 45, 108,
                  32, 124, 32, 77, 101, 97, 115, 117, 114, 101, 45, 79, 98, 106,
                  101, 99, 116, 41, 46, 67, 111, 117, 110, 116 >>],
            \* "Winget": "(winget list | Measure-Object).Count"
            [name |-> <<87, 105, 110, 103, 101, 116>>,
             cmd |-> << 40, 119, 105, 110, 103, 101, 116, 32, 108, 105, 115, 116, 32,
                  124, 32, 77, 101, 97, 115, 117, 114, 101, 45, 79, 98, 106, 101,
                  99, 116, 41, 46, 67, 111, 117, 110, 116 >>],
            \* "Scoop": "(scoop list | Measure-Object).Count"
            [name |-> <<83, 99, 111, 111, 112>>,
             cmd |-> << 40, 115, 99, 111, 111, 112, 32, 108, 105, 115, 116, 32, 124,
                  32, 77, 101, 97, 115, 117, 114, 101, 45, 79, 98, 106, 101, 99,
                  116, 41, 46, 67, 111, 117, 110, 116 >>] >>
    [] OTHER -> << >>

IsSpace(c) == c \in {9, 10, 11, 12, 13, 32}

\* strings.TrimSpace
RECURSIVE TrimLeft(_)
TrimLeft(b) ==
  The({ IF v # <<>> /\ IsSpace(v[1]) THEN TrimLeft(Tail(v)) ELSE v : v \in {b} })

RECURSIVE TrimRight(_)
TrimRight(b) ==
  The({ IF v # <<>> /\ IsSpace(v[Len(v)]) THEN TrimRight(SubSeq(v, 1, Len(v) - 1)) ELSE v
        : v \in {b} })

TrimSpace(b) == TrimRight(TrimLeft(b))

\* strings.Split(c, "|")[0]: the text before the first '|'
RECURSIVE BeforePipe(_)
BeforePipe(c) ==
  IF c = <<>> \/ c[1] = 124 THEN <<>> ELSE <<c[1]>> \o BeforePipe(Tail(c))

\* the leading run of non-space bytes
RECURSIVE TakeWord(_)
TakeWord(c) ==
  IF c = <<>> \/ IsSpace(c[1]) THEN <<>> ELSE <<c[1]>> \o TakeWord(Tail(c))

\* strings.Fields(s)[0]
FirstField(s) == TakeWord(TrimLeft(s))

\* baseCmd
BaseCmd(c) == FirstField(BeforePipe(c))

\* runShellCommand(c) for the count command of manager n: "" on a failed
\* command, else the trimmed standard output
runShellCommand(n) ==
  IF cmdOut[n].err THEN <<>> ELSE TrimSpace(cmdOut[n].out)

\* baseCmd of every count command of the source
BaseCmdOf ==
  [c \in UNION { { Checkers(os)[i].cmd : i \in 1..Len(Checkers(os)) } :
                   os \in { "linux", "darwin", "windows" } } |-> BaseCmd(c)]

BaseCmdText == [c \in DOMAIN BaseCmdOf |-> Text(BaseCmdOf[c])]

\* whether a checker gives up before running its command: LookPath fails and
\* baseCmd is not "("
CheckerSkips(c) == ~LookPathOk(BaseCmdText[c]) /\ BaseCmdOf[c] # <<40>>

\* fmt.Sprintf("%s (%d)", n, count)
PackageEntry(n, count) == n \o <<32, 40>> \o Itoa(count) \o <<41>>

\* what one checker goroutine sends on results: a sequence of 0 or 1 entries
CheckerSends(chk) ==
  IF CheckerSkips(chk.cmd) THEN <<>>
  ELSE LET countStr == runShellCommand(Text(chk.name))
       IN  IF countStr = <<>> THEN <<>>
           ELSE LET r == Atoi(TrimSpace(countStr))
                IN  IF r.ok /\ r.val > 0 THEN << PackageEntry(chk.name, r.val) >> ELSE <<>>

\* what getPackageCounts does with the parts drained from the channel
PackagesReturn(list) ==
  LET sorted == SortStrings(list)
  IN  IF Len(sorted) = 0 THEN bNoneDetected ELSE Join(sorted, bCommaSpace)

-----------------------------------------------------------------------------
(* What the probes of GetSystemInfo write *)

bDaysSep    == <<32, 100, 97, 121, 115, 44, 32>>        \* " days, "
bHours      == <<32, 104, 111, 117, 114, 115>>             \* " hours"
bHoursSep   == <<32, 104, 111, 117, 114, 115, 44, 32>>   \* " hours, "
bMinutes    == <<32, 109, 105, 110, 117, 116, 101, 115>> \* " minutes"

\* the hours taken without `% 24`: the total number of hours
UptimeStringTotalHours(u) ==
  LET days    == u \div 86400
      hours   == u \div 3600
      minutes == (u \div 60) % 60
  IN  IF days > 0 THEN Itoa(days) \o bDaysSep \o Itoa(hours) \o bHours
      ELSE IF hours > 0 THEN Itoa(hours) \o bHoursSep \o Itoa(minutes) \o bMinutes
      ELSE Itoa(minutes) \o bMinutes

\* the three Sprintf forms of info.Uptime for h.Uptime = u seconds
UptimeString(u) ==
  LET days    == u \div 86400
      hours   == (u \div 3600) % 24
      minutes == (u \div 60) % 60
  IN  IF days > 0 THEN Itoa(days) \o bDaysSep \o Itoa(hours) \o bHours
      ELSE IF hours > 0 THEN Itoa(hours) \o bHoursSep \o Itoa(minutes) \o bMinutes
      ELSE Itoa(minutes) \o bMinutes

\* getOSInfo() on a host whose /etc/os-release names the distribution
getOSInfo == "Ubuntu 24.04 LTS"

\* the assignments of gatherHostInfo, in program order: none on the early return
gatherHostInfoWrites ==
  IF Failed("host.Info") THEN << >>
  ELSE << <<"Uptime", Text(UptimeString(uptime))>>,
          <<"OS", getOSInfo>>,
          <<"Kernel", "Ubuntu 6.8.0-45-generic">>,
          <<"Hostname", IF Failed("os.Hostname") THEN "" ELSE "kv-host">> >>

\* wg.Done() called at the end of the function instead of deferred: the early
\* return skips it
gatherHostInfoDoneAtEnd == IF Failed("host.Info") THEN 0 ELSE 1

\* how many times gatherHostInfo calls wg.Done(): deferred, so on every path
gatherHostInfoDone == 1

\* getCPUInfoDetailed()
getCPUInfoDetailed == IF Failed("cpu.Info") THEN "Unknown Processor" ELSE "Intel Core i7-8650U"

\* gatherCPUInfo without the `if !isFast` guard around the sampling
gatherCPUInfoWritesUnguarded(fast) ==
  << <<"CPU", getCPUInfoDetailed>> >>
  \o (IF Failed("cpu.Info") THEN << >> ELSE << <<"CPUSpeed", "2.11 GHz">> >>)
  \o << <<"CoresThreads", IF Failed("cpu.Counts") THEN "0/0" ELSE "4/8">> >>
  \o << <<"CPUUsage", IF Failed("cpu.Percent") THEN "N/A" ELSE "12.5%">> >>

\* the assignments of gatherCPUInfo, in program order
gatherCPUInfoWrites(fast) ==
  << <<"CPU", getCPUInfoDetailed>> >>
  \o (IF Failed("cpu.Info") THEN << >> ELSE << <<"CPUSpeed", "2.11 GHz">> >>)
  \o << <<"CoresThreads", IF Failed("cpu.Counts") THEN "0/0" ELSE "4/8">> >>
  \o (IF fast THEN << >>
      ELSE << <<"CPUUsage", IF Failed("cpu.Percent") THEN "N/A" ELSE "12.5%">> >>)

\* the assignments of gatherMemoryInfo, in program order
gatherMemoryInfoWrites ==
  (IF Failed("mem.VirtualMemory") THEN << >>
   ELSE << <<"RAM", "3.2GB / 15.6GB (21%)">> >>)
  \o << <<"Swap", IF Failed("mem.SwapMemory") THEN "None" ELSE "0.5GB / 2.0GB (25.0%)">> >>

\* the fields a probe goroutine reads from the shared SystemInfo: none does
TaskReads(t) == {}

\* getInstalledLanguages(), whatever the order the checks finish in
getInstalledLanguages ==
  LanguagesReturn(SeqOfSet({ Langs[i] : i \in { j \in 1..Len(Langs) : LookPathOk(LangCmd(Langs[j])) } }))

\* getPackageCounts(), whatever the order the checkers finish in
getPackageCounts ==
  LET cs == Checkers(goos)
  IN  PackagesReturn(SeqOfSet(UNION { Range(CheckerSends(cs[i])) : i \in 1..Len(cs) }))

\* fastTaskFuncs[key](): the value each fast probe function returns on this host,
\* and the value its failure path returns
FastTaskFunc(key) ==
  LET bad == Failed(SourceOf(key))
  IN  CASE key = "Shell"          -> IF bad THEN "Unknown" ELSE "Bash 5.2.21"
        [] key = "GPU"            -> IF bad THEN "" ELSE "Intel UHD Graphics 620"
        [] key = "Disk"           -> IF bad THEN "N/A" ELSE "41.3GB / 233.7GB (18%)"
        [] key = "IPAddress"      -> IF bad THEN "127.0.0.1" ELSE "192.168.1.23"
        [] key = "Locale"         -> IF bad THEN "Unknown" ELSE "en_US"
        [] key = "Resolution"     -> IF bad THEN "Headless" ELSE "1920x1080"
        [] key = "WindowManager"  -> IF bad THEN "Unknown (X11?)" ELSE "Mutter (X11)"
        [] key = "DE"             -> IF bad THEN "" ELSE "GNOME"
        [] key = "Terminal"       -> IF bad THEN "Unknown" ELSE "Alacritty"
        [] key = "Go"             -> "go1.25.0"
        [] key = "Virtualization" -> IF bad THEN "" ELSE "kvm"

\* slowTaskFuncs[key]()
SlowTaskFunc(key) ==
  CASE key = "OpenPorts"   -> Text(getOpenPorts(Failed("net.Connections"), conns))
    [] key = "Packages"    -> Text(getPackageCounts)
    [] key = "Languages"   -> Text(getInstalledLanguages)
    [] key = "Temperature" -> IF Failed("host.SensorsTemperatures") THEN "" ELSE "47.0 C"

-----------------------------------------------------------------------------
(* GetSystemInfo *)

\* the record after the assignments ws = << <<field, value>>, ... >>
RECURSIVE InfoAfter(_, _)
InfoAfter(i, ws) ==
  IF ws = << >> THEN i ELSE InfoAfter([i EXCEPT ![ws[1][1]] = ws[1][2]], Tail(ws))

\* the write log after goroutine t made the assignments ws
RECURSIVE WritesAfter(_, _, _)
WritesAfter(w, t, ws) ==
  IF ws = << >> THEN w
  ELSE WritesAfter([w EXCEPT ![ws[1][1]] = Append(@, t)], t, Tail(ws))

\* a range loop over a map starts at an unspecified key: the rotations of the
\* literal order by 0 .. MapSeeds-1
Rotate(s, k) == SubSeq(s, (k % Len(s)) + 1, Len(s)) \o SubSeq(s, 1, k % Len(s))

\* the scheduler may run goroutine t to its end now
Scheduled(q, t) == \E i \in 1..Len(q) : i <= Procs /\ q[i] = t

\* the sequence q without the element t
RECURSIVE Without(_, _)
Without(q, t) ==
  IF q = << >> THEN << >>
  ELSE IF q[1] = t THEN Tail(q) ELSE <<q[1]>> \o Without(Tail(q), t)

\* a pass without the barrier: the caller goes on while goroutines still run
WaitReturnsAtOnce(counter) == TRUE

\* wg.Wait() returns: the counter is zero
WaitReturns(counter) == counter = 0

\* wg.Add(3) before the three grouped probes are started
GroupAdd == 3

\* `if !isFast` always taken: the slow tier selected in both modes
SlowTierAlways(fast) == TRUE

\* `if !isFast`: the slow tier is selected
SlowTierSelected(fast) == ~fast

\* the assignments of the goroutine t, in program order; a standalone task is
\* `defer wg.Done(); *p = f()`
TaskWrites(t) ==
  CASE t = "Host"   -> gatherHostInfoWrites
    [] t = "CPU"    -> gatherCPUInfoWrites(isFast)
    [] t = "Memory" -> gatherMemoryInfoWrites
    [] t \in Range(FastKeys) -> << <<FastTaskPtr(t), FastTaskFunc(t)>> >>
    [] t \in Range(SlowKeys) -> << <<SlowTaskPtr(t), SlowTaskFunc(t)>> >>

\* the wg.Done() calls of the goroutine t: one, deferred
TaskDones(t) == IF t = "Host" THEN gatherHostInfoDone ELSE 1

\* the body of one probe goroutine, run to its end: its assignments, then the
\* deferred wg.Done()
RunTask(t) ==
  /\ task[t] = "run"
  /\ Scheduled(queue, t)
  /\ queue' = Without(queue, t)
  /\ task' = [task EXCEPT ![t] = "done"]
  /\ \E ws \in { TaskWrites(t) } :
       /\ info' = InfoAfter(info, ws)
       /\ writes' = WritesAfter(writes, t, ws)
  /\ reads' = reads \cup { <<t, f>> : f \in TaskReads(t) }
  /\ wg' = wg - TaskDones(t)
  /\ UNCHANGED <<isFast, pc, iter, envVars, cliVars, portVars, langVars, pkgVars>>

\* wg.Add(3); go gatherHostInfo; go gatherCPUInfo; go gatherMemoryInfo; the
\* fastTasks range loop is entered
StartGroup ==
  /\ pc = "start"
  /\ wg' = wg + GroupAdd
  /\ task' = [t \in Tasks |-> IF t \in GroupTasks THEN "run" ELSE task[t]]
  /\ queue' = queue \o << "Host", "CPU", "Memory" >>
  /\ pc' = "fastLoop"
  /\ \E seed \in 0..(MapSeeds - 1) : iter' = Rotate(FastKeys, seed)
  /\ UNCHANGED <<isFast, info, writes, reads, envVars, cliVars, portVars, langVars, pkgVars>>

\* a plain call in place of the go statement: the caller goes on when every
\* function it has called so far has returned
CalledInline(tk) == \A t \in Tasks : tk[t] \in { "new", "done" }

\* the go statement: the caller goes on at once, whatever the goroutines
\* started so far are doing
GoReturns(tk) == TRUE

\* one iteration of a range loop: wg.Add(1); go func(p, f){...}(Ptr, funcs[key])
Dispatch(loop) ==
  /\ pc = loop
  /\ iter # << >>
  /\ GoReturns(task)
  /\ wg' = wg + 1
  /\ task' = [task EXCEPT ![Head(iter)] = "run"]
  /\ queue' = Append(queue, Head(iter))
  /\ iter' = Tail(iter)
  /\ UNCHANGED <<isFast, pc, info, writes, reads, envVars, cliVars, portVars, langVars, pkgVars>>

FastLoopStep == Dispatch("fastLoop")

\* the fastTasks loop is over: if !isFast the slowTasks loop is entered
FastLoopExit ==
  /\ pc = "fastLoop"
  /\ iter = << >>
  /\ IF SlowTierSelected(isFast)
       THEN pc' = "slowLoop" /\ \E seed \in 0..(MapSeeds - 1) : iter' = Rotate(SlowKeys, seed)
       ELSE pc' = "wait" /\ iter' = << >>
  /\ UNCHANGED <<isFast, wg, task, queue, info, writes, reads, envVars, cliVars, portVars, langVars, pkgVars>>

SlowLoopStep == Dispatch("slowLoop")

SlowLoopExit ==
  /\ pc = "slowLoop"
  /\ iter = << >>
  /\ pc' = "wait"
  /\ UNCHANGED <<isFast, iter, wg, task, queue, info, writes, reads, envVars, cliVars, portVars, langVars, pkgVars>>

\* wg.Wait(); return info
WaitAndReturn ==
  /\ pc = "wait"
  /\ WaitReturns(wg)
  /\ pc' = "returned"
  /\ UNCHANGED <<isFast, iter, wg, task, queue, info, writes, reads, envVars, cliVars, portVars, langVars, pkgVars>>

\* go gatherHostInfo(info, &wg)
RunHost == RunTask("Host")

\* go gatherCPUInfo(info, &wg, isFast)
RunCPU == RunTask("CPU")

\* go gatherMemoryInfo(info, &wg)
RunMemory == RunTask("Memory")

\* the goroutine the fastTasks loop started for key
RunFast(key) == RunTask(key)

\* the goroutine the slowTasks loop started for key
RunSlow(key) == RunTask(key)

-----------------------------------------------------------------------------
(* Initial states *)

\* the count-command outputs a package manager may give, most usual first:
\* a count, zero, text that is no number, a padded count, a failed command
OutputList ==
  << [err |-> FALSE, out |-> <<49, 50, 48, 10>>],                   \* "120\n"
     [err |-> FALSE, out |-> <<48, 10>>],                           \* "0\n"
     [err |-> FALSE, out |-> <<110, 47, 97, 10>>],                  \* "n/a\n"
     [err |-> FALSE, out |-> <<32, 32, 32, 32, 32, 32, 55, 10>>],   \* "      7\n"
     [err |-> TRUE, out |-> << >>] >>

\* the names of the package managers of a GOOS
Managers(os) == { Text(Checkers(os)[i].name) : i \in 1..Len(Checkers(os)) }

\* a development host: the state of the machine GetSystemInfo is run on
HostGoos     == "linux"
HostLookPath == { "sh", "python3", "go", "dpkg-query", "snap" }
HostCmdOut   ==
  [n \in Managers(HostGoos) |->
     IF n = "APT" THEN OutputList[1] ELSE IF n = "Snap" THEN OutputList[4] ELSE OutputList[2]]
HostConns    ==
  << [status |-> "LISTEN", ip |-> "0.0.0.0", port |-> 22],
     [status |-> "LISTEN", ip |-> "127.0.0.1", port |-> 631],
     [status |-> "LISTEN", ip |-> "127.0.0.53", port |-> 53],
     [status |-> "ESTABLISHED", ip |-> "192.168.1.23", port |-> 51432] >>
\* h.Uptime: 1 day, 2 hours, 3 minutes and 4 seconds
HostUptime   == 86400 + 2 * 3600 + 3 * 60 + 4

\* the environment of the host: a bash login in a GNOME session
HostEnviron ==
  [ SHELL               |-> <<47, 98, 105, 110, 47, 98, 97, 115, 104>>,          \* "/bin/bash"
    LANG                |-> <<101, 110, 95, 85, 83, 46, 85, 84, 70, 45, 56>>,    \* "en_US.UTF-8"
    LC_ALL              |-> << >>,
    XDG_CURRENT_DESKTOP |-> <<71, 78, 79, 77, 69>>,                              \* "GNOME"
    DESKTOP_SESSION     |-> <<103, 110, 111, 109, 101>>,                         \* "gnome"
    PSModulePath        |-> << >>,
    ComSpec             |-> << >>,
    WT_SESSION          |-> << >> ]

HostEnv ==
  /\ goos = HostGoos
  /\ lookPath = HostLookPath
  /\ cmdOut = HostCmdOut
  /\ conns = HostConns
  /\ uptime = HostUptime
  /\ environ = HostEnviron
  /\ argv = << >>

\* the failure scenarios of one pass: nothing fails, the host query alone
\* fails, the GPU command alone exits non-zero, every source fails
Scenarios == { {}, {"host.Info"}, {"lspci"}, Sources }

MainIdle ==
  /\ isFast = FALSE
  /\ pc = "idle"
  /\ iter = << >>
  /\ wg = 0
  /\ task = [t \in Tasks |-> "new"]
  /\ queue = << >>
  /\ info = ZeroInfo
  /\ writes = [f \in Fields |-> << >>]
  /\ reads = {}

CliIdle == cliPc = "idle" /\ output = << >> /\ exitCode = -1

PortsIdle == portsPc = "idle" /\ portsOut = << >>

LangIdle ==
  /\ langPc = "idle"
  /\ langIter = << >>
  /\ langWg = 0
  /\ langTask = [i \in 1..Len(Langs) |-> "new"]
  /\ mu = 0
  /\ installed = << >>
  /\ langLocal = [i \in 1..Len(Langs) |-> << >>]
  /\ langOut = << >>

PkgIdle ==
  /\ pkgPc = "idle"
  /\ pkgIter = << >>
  /\ pkgWg = 0
  /\ pkgTask = << >>
  /\ results = << >>
  /\ closed = FALSE
  /\ parts = << >>
  /\ pkgOut = << >>

\* a call GetSystemInfo(isFast): info := &SystemInfo{}; var wg sync.WaitGroup
Init ==
  /\ HostEnv
  /\ failing \in Scenarios
  /\ isFast \in BOOLEAN
  /\ pc = "start"
  /\ iter = << >>
  /\ wg = 0
  /\ task = [t \in Tasks |-> "new"]
  /\ queue = << >>
  /\ info = ZeroInfo
  /\ writes = [f \in Fields |-> << >>]
  /\ reads = {}
  /\ PortsIdle /\ LangIdle /\ PkgIdle /\ CliIdle

Next ==
  \/ StartGroup
  \/ FastLoopStep
  \/ FastLoopExit
  \/ SlowLoopStep
  \/ SlowLoopExit
  \/ WaitAndReturn
  \/ RunHost
  \/ RunCPU
  \/ RunMemory
  \/ \E key \in Range(FastKeys) : RunFast(key)
  \/ \E key \in Range(SlowKeys) : RunSlow(key)

Spec == Init /\ [][Next]_vars

\* the Go scheduler runs every runnable goroutine, and every probe's own work
\* finishes: while some step of the pass is possible, one is taken
FairSpec == Spec /\ WF_vars(Next)

-----------------------------------------------------------------------------
(* GetSystemInfo with the assignments of a probe goroutine and its          *)
(* wg.Done() taken as separate steps                                        *)

\* wg.Done() called first and the assignments made after it
TaskStepsDoneFirst(t) == << "done", "write" >>

\* defer wg.Done() at the top, then the body: the assignments are made, and
\* wg.Done() runs when the function returns
TaskSteps(t) == << "write", "done" >>

\* the effect of one step of goroutine t
TaskEffect(t, kind) ==
  IF kind = "write"
    THEN /\ \E ws \in { TaskWrites(t) } :
              /\ info' = InfoAfter(info, ws)
              /\ writes' = WritesAfter(writes, t, ws)
         /\ reads' = reads \cup { <<t, f>> : f \in TaskReads(t) }
         /\ wg' = wg
    ELSE /\ wg' = wg - TaskDones(t)
         /\ UNCHANGED <<info, writes, reads>>

\* the first step of goroutine t
TaskFirst(t) ==
  /\ task[t] = "run"
  /\ Scheduled(queue, t)
  /\ TaskEffect(t, TaskSteps(t)[1])
  /\ task' = [task EXCEPT ![t] = "mid"]
  /\ UNCHANGED <<isFast, pc, iter, queue, envVars, cliVars, portVars, langVars, pkgVars>>

\* the second step of goroutine t, which ends it
TaskSecond(t) ==
  /\ task[t] = "mid"
  /\ Scheduled(queue, t)
  /\ TaskEffect(t, TaskSteps(t)[2])
  /\ task' = [task EXCEPT ![t] = "done"]
  /\ queue' = Without(queue, t)
  /\ UNCHANGED <<isFast, pc, iter, envVars, cliVars, portVars, langVars, pkgVars>>

\* the failure scenarios of the stepwise specification: nothing fails, the
\* host query fails (the early return of gatherHostInfo)
StepScenarios == { {}, {"host.Info"} }

\* a call GetSystemInfo(false)
InitSteps ==
  /\ HostEnv
  /\ failing \in StepScenarios
  /\ isFast = FALSE
  /\ pc = "start"
  /\ iter = << >>
  /\ wg = 0
  /\ task = [t \in Tasks |-> "new"]
  /\ queue = << >>
  /\ info = ZeroInfo
  /\ writes = [f \in Fields |-> << >>]
  /\ reads = {}
  /\ PortsIdle /\ LangIdle /\ PkgIdle /\ CliIdle

NextSteps ==
  \/ StartGroup
  \/ FastLoopStep
  \/ FastLoopExit
  \/ SlowLoopStep
  \/ SlowLoopExit
  \/ WaitAndReturn
  \/ \E t \in Tasks : TaskFirst(t)
  \/ \E t \in Tasks : TaskSecond(t)

SpecSteps == InitSteps /\ [][NextSteps]_vars

-----------------------------------------------------------------------------
(* GetSystemInfo with suspension points: a probe goroutine may block in a   *)
(* subprocess or in the CPU sampling wait                                   *)

\* the goroutines with a suspension point on this host: gatherCPUInfo samples
\* for 150 ms when !isFast; getShell, getGPUInfo, getResolution and
\* getPackageCounts run a subprocess
Suspends(t) ==
  \/ t = "CPU" /\ ~isFast
  \/ t \in { "Shell", "GPU", "Resolution", "Packages" }

\* goroutine t blocks in cmd.Output() or cpu.Percent: it leaves the run queue
Suspend(t) ==
  /\ task[t] = "run"
  /\ Suspends(t)
  /\ Scheduled(queue, t)
  /\ task' = [task EXCEPT ![t] = "blocked"]
  /\ queue' = Without(queue, t)
  /\ UNCHANGED <<isFast, pc, iter, wg, info, writes, reads, envVars, cliVars, portVars, langVars, pkgVars>>

\* the subprocess exits or the sampling interval ends: the goroutine runs to
\* its end, its assignments and then the deferred wg.Done()
Resume(t) ==
  /\ task[t] = "blocked"
  /\ task' = [task EXCEPT ![t] = "done"]
  /\ \E ws \in { TaskWrites(t) } :
       /\ info' = InfoAfter(info, ws)
       /\ writes' = WritesAfter(writes, t, ws)
  /\ reads' = reads \cup { <<t, f>> : f \in TaskReads(t) }
  /\ wg' = wg - TaskDones(t)
  /\ UNCHANGED <<isFast, pc, iter, queue, envVars, cliVars, portVars, langVars, pkgVars>>

\* a call GetSystemInfo(isFast) on the host where nothing fails
InitBlock ==
  /\ HostEnv
  /\ failing = {}
  /\ isFast \in BOOLEAN
  /\ pc = "start"
  /\ iter = << >>
  /\ wg = 0
  /\ task = [t \in Tasks |-> "new"]
  /\ queue = << >>
  /\ info = ZeroInfo
  /\ writes = [f \in Fields |-> << >>]
  /\ reads = {}
  /\ PortsIdle /\ LangIdle /\ PkgIdle /\ CliIdle

\* the steps GetSystemInfo and its goroutines take themselves
BlockRunning == Next \/ \E t \in Tasks : Suspend(t)

NextBlock == BlockRunning \/ \E t \in Tasks : Resume(t)

SpecBlock == InitBlock /\ [][NextBlock]_vars

\* the scheduler runs every runnable goroutine; when a suspended goroutine is
\* resumed is up to its subprocess: it may stay suspended for ever
FairBlock == SpecBlock /\ WF_vars(BlockRunning)

-----------------------------------------------------------------------------
(* getOpenPorts as a call of its own, over bounded socket tables *)

\* the ports the socket tables are built from
PortList == << 22, 80, 8080, 3000, 5432, 9000, 443, 8443 >>

\* what is bound on one port: nothing; a listener on a wildcard address; a
\* listener on one address; listeners on two addresses; a connection only
SocketKinds == { "none", "any", "local", "dup", "estab" }

SocketsOf(i, kind) ==
  LET p == PortList[i]
  IN  CASE kind = "none"  -> << >>
        [] kind = "any"   -> << [status |-> "LISTEN", port |-> p,
                                 ip |-> IF i % 2 = 1 THEN "0.0.0.0" ELSE "::"] >>
        [] kind = "local" -> << [status |-> "LISTEN", ip |-> "127.0.0.1", port |-> p] >>
        [] kind = "dup"   -> << [status |-> "LISTEN", ip |-> "127.0.0.1", port |-> p],
                               [status |-> "LISTEN", ip |-> "::1", port |-> p] >>
        [] kind = "estab" -> << [status |-> "ESTABLISHED", ip |-> "192.168.1.23", port |-> p] >>

RECURSIVE SocketTable(_, _)
SocketTable(kinds, i) ==
  IF i > NumPorts THEN << >> ELSE SocketsOf(i, kinds[i]) \o SocketTable(kinds, i + 1)

ConnInputs == { SocketTable(kinds, 1) : kinds \in [1..NumPorts -> SocketKinds] }

InitPorts ==
  /\ goos = HostGoos
  /\ lookPath = HostLookPath
  /\ cmdOut = HostCmdOut
  /\ uptime = HostUptime
  /\ environ = HostEnviron
  /\ argv = << >>
  /\ \/ failing = {} /\ conns \in ConnInputs
     \/ failing = {"net.Connections"} /\ conns = << >>
  /\ portsPc = "call"
  /\ portsOut = << >>
  /\ MainIdle /\ LangIdle /\ PkgIdle /\ CliIdle

CallGetOpenPorts ==
  /\ portsPc = "call"
  /\ portsOut' = getOpenPorts(Failed("net.Connections"), conns)
  /\ portsPc' = "done"
  /\ UNCHANGED <<envVars, cliVars, mainVars, langVars, pkgVars>>

NextPorts == CallGetOpenPorts

SpecPorts == InitPorts /\ [][NextPorts]_vars

-----------------------------------------------------------------------------
(* getInstalledLanguages as a call of its own: the fan-out over the 7       *)
(* candidates, the mutex around the append, the join                        *)

LangIds == 1..Len(Langs)

\* the executables the candidates are looked up as
LangExes == { LangCmd(Langs[i]) : i \in LangIds }

InitLang ==
  /\ goos = HostGoos
  /\ cmdOut = HostCmdOut
  /\ conns = HostConns
  /\ uptime = HostUptime
  /\ environ = HostEnviron
  /\ argv = << >>
  /\ failing = {}
  /\ lookPath \in SUBSET LangExes
  /\ langPc = "loop"
  /\ langIter = [i \in LangIds |-> i]
  /\ langWg = 0
  /\ langTask = [i \in LangIds |-> "new"]
  /\ mu = 0
  /\ installed = << >>
  /\ langLocal = [i \in LangIds |-> << >>]
  /\ langOut = << >>
  /\ MainIdle /\ PortsIdle /\ PkgIdle /\ CliIdle

\* the append without the mutex: Lock never waits
MuLockAlways(holder, i) == TRUE

\* mu.Lock() succeeds for goroutine i: the mutex is free
MuLockOk(holder, i) == holder = 0

\* one iteration of `for _, lang := range langs`: wg.Add(1); go func(l){...}(lang)
LangSpawn ==
  /\ langPc = "loop"
  /\ langIter # << >>
  /\ langWg' = langWg + 1
  /\ langTask' = [langTask EXCEPT ![Head(langIter)] = "run"]
  /\ langIter' = Tail(langIter)
  /\ UNCHANGED <<langPc, mu, installed, langLocal, langOut, envVars, cliVars, mainVars, portVars, pkgVars>>

\* exec.LookPath fails: the goroutine ends (deferred wg.Done())
LangNotFound(i) ==
  /\ langTask[i] = "run"
  /\ ~LookPathOk(LangCmd(Langs[i]))
  /\ langTask' = [langTask EXCEPT ![i] = "done"]
  /\ langWg' = langWg - 1
  /\ UNCHANGED <<langPc, langIter, mu, installed, langLocal, langOut, envVars, cliVars, mainVars, portVars, pkgVars>>

\* exec.LookPath succeeds and mu.Lock() is acquired
LangLock(i) ==
  /\ langTask[i] = "run"
  /\ LookPathOk(LangCmd(Langs[i]))
  /\ MuLockOk(mu, i)
  /\ mu' = i
  /\ langTask' = [langTask EXCEPT ![i] = "locked"]
  /\ UNCHANGED <<langPc, langIter, langWg, installed, langLocal, langOut, envVars, cliVars, mainVars, portVars, pkgVars>>

\* append(installed, l), first half: the slice is read
LangAppendRead(i) ==
  /\ langTask[i] = "locked"
  /\ langLocal' = [langLocal EXCEPT ![i] = installed]
  /\ langTask' = [langTask EXCEPT ![i] = "read"]
  /\ UNCHANGED <<langPc, langIter, langWg, mu, installed, langOut, envVars, cliVars, mainVars, portVars, pkgVars>>

\* installed = append(...), second half: the grown slice is stored; then
\* mu.Unlock() and the deferred wg.Done()
LangAppendWrite(i) ==
  /\ langTask[i] = "read"
  /\ installed' = Append(langLocal[i], Langs[i])
  /\ langLocal' = [langLocal EXCEPT ![i] = << >>]
  /\ mu' = IF mu = i THEN 0 ELSE mu
  /\ langTask' = [langTask EXCEPT ![i] = "done"]
  /\ langWg' = langWg - 1
  /\ UNCHANGED <<langPc, langIter, langOut, envVars, cliVars, mainVars, portVars, pkgVars>>

\* wg.Wait() returns; sort.Strings(installed); the result is returned
LangWaitAndReturn ==
  /\ langPc = "loop"
  /\ langIter = << >>
  /\ WaitReturns(langWg)
  /\ langOut' = LanguagesReturn(installed)
  /\ langPc' = "done"
  /\ UNCHANGED <<langIter, langWg, langTask, mu, installed, langLocal, envVars, cliVars, mainVars, portVars, pkgVars>>

NextLang ==
  \/ LangSpawn
  \/ \E i \in LangIds : LangNotFound(i)
  \/ \E i \in LangIds : LangLock(i)
  \/ \E i \in LangIds : LangAppendRead(i)
  \/ \E i \in LangIds : LangAppendWrite(i)
  \/ LangWaitAndReturn

SpecLang == InitLang /\ [][NextLang]_vars

-----------------------------------------------------------------------------
(* getPackageCounts as a call of its own: one checker goroutine per package *)
(* manager of the GOOS, a buffered results channel, the join, the drain     *)

\* the executable each manager's count command starts
ManagerExe(os) ==
  CASE os = "linux"   -> { "dpkg-query", "pacman", "dnf", "flatpak", "snap" }
    [] os = "darwin"  -> { "brew" }
    [] os = "windows" -> { "choco", "winget", "scoop" }
    [] OTHER          -> {}

ExeOf(n) ==
  CASE n = "APT" -> "dpkg-query" [] n = "Pacman" -> "pacman" [] n = "DNF" -> "dnf"
    [] n = "Flatpak" -> "flatpak" [] n = "Snap" -> "snap"
    [] n = "Brew" -> "brew" [] n = "Cask" -> "brew"
    [] n = "Choco" -> "choco" [] n = "Winget" -> "winget" [] n = "Scoop" -> "scoop"

\* the outputs the count commands may give on a host with the executables
\* exes: a manager that is not installed counts nothing
CmdOutputs(os, exes) ==
  { f \in [Managers(os) -> { OutputList[k] : k \in 1..NumOutputs }] :
      \A n \in Managers(os) : ExeOf(n) \notin exes => f[n] = OutputList[2] }

InitPkg ==
  /\ conns = HostConns
  /\ uptime = HostUptime
  /\ environ = HostEnviron
  /\ argv = << >>
  /\ failing = {}
  /\ goos \in { "linux", "darwin", "windows", "freebsd" }
  /\ lookPath \in SUBSET ManagerExe(goos)
  /\ cmdOut \in CmdOutputs(goos, lookPath)
  /\ pkgPc = "start"
  /\ pkgIter = << >>
  /\ pkgWg = 0
  /\ pkgTask = [i \in 1..Len(Checkers(goos)) |-> "new"]
  /\ results = << >>
  /\ closed = FALSE
  /\ parts = << >>
  /\ pkgOut = << >>
  /\ MainIdle /\ PortsIdle /\ LangIdle /\ CliIdle

\* the switch on runtime.GOOS: the default branch returns at once; else
\* results := make(chan string, len(checkers)) and the range loop is entered
PkgStart ==
  /\ pkgPc = "start"
  /\ IF Checkers(goos) = << >>
       THEN pkgOut' = bNoneDetected /\ pkgPc' = "done" /\ pkgIter' = << >>
       ELSE /\ pkgOut' = pkgOut
            /\ pkgPc' = "loop"
            /\ \E seed \in 0..(MapSeeds - 1) :
                 pkgIter' = Rotate([i \in 1..Len(Checkers(goos)) |-> i], seed)
  /\ UNCHANGED <<pkgWg, pkgTask, results, closed, parts, envVars, cliVars, mainVars, portVars, langVars>>

\* one iteration of `for name, cmd := range checkers`
PkgSpawn ==
  /\ pkgPc = "loop"
  /\ pkgIter # << >>
  /\ pkgWg' = pkgWg + 1
  /\ pkgTask' = [pkgTask EXCEPT ![Head(pkgIter)] = "run"]
  /\ pkgIter' = Tail(pkgIter)
  /\ UNCHANGED <<pkgPc, results, closed, parts, pkgOut, envVars, cliVars, mainVars, portVars, langVars>>

\* a buffer one slot short of the number of checkers
ResultsCapOneShort == Len(Checkers(goos)) - 1

\* cap(results)
ResultsCap == Len(Checkers(goos))

\* one checker goroutine, run to its end: a send blocks while the buffer is
\* full and panics on a closed channel
PkgChecker(i) ==
  /\ pkgTask[i] = "run"
  /\ LET sends == CheckerSends(Checkers(goos)[i])
     IN  /\ sends # << >> => Len(results) < ResultsCap
         /\ IF sends # << >> /\ closed
              THEN pkgTask' = [pkgTask EXCEPT ![i] = "panic"] /\ UNCHANGED <<results, pkgWg>>
              ELSE /\ results' = results \o sends
                   /\ pkgTask' = [pkgTask EXCEPT ![i] = "done"]
                   /\ pkgWg' = pkgWg - 1
  /\ UNCHANGED <<pkgPc, pkgIter, closed, parts, pkgOut, envVars, cliVars, mainVars, portVars, langVars>>

\* wg.Wait() returns; close(results)
PkgWaitAndClose ==
  /\ pkgPc = "loop"
  /\ pkgIter = << >>
  /\ WaitReturns(pkgWg)
  /\ closed' = TRUE
  /\ pkgPc' = "drain"
  /\ UNCHANGED <<pkgIter, pkgWg, pkgTask, results, parts, pkgOut, envVars, cliVars, mainVars, portVars, langVars>>

\* one iteration of `for res := range results`
PkgDrain ==
  /\ pkgPc = "drain"
  /\ results # << >>
  /\ parts' = Append(parts, Head(results))
  /\ results' = Tail(results)
  /\ UNCHANGED <<pkgPc, pkgIter, pkgWg, pkgTask, closed, pkgOut, envVars, cliVars, mainVars, portVars, langVars>>

\* the channel is closed and empty: the loop ends; sort, join, return
PkgReturn ==
  /\ pkgPc = "drain"
  /\ results = << >>
  /\ closed
  /\ pkgOut' = PackagesReturn(parts)
  /\ pkgPc' = "done"
  /\ UNCHANGED <<pkgIter, pkgWg, pkgTask, results, closed, parts, envVars, cliVars, mainVars, portVars, langVars>>

NextPkg ==
  \/ PkgStart
  \/ PkgSpawn
  \/ \E i \in 1..Len(Checkers(goos)) : PkgChecker(i)
  \/ PkgWaitAndClose
  \/ PkgDrain
  \/ PkgReturn

SpecPkg == InitPkg /\ [][NextPkg]_vars

-----------------------------------------------------------------------------
(* Properties of GetSystemInfo *)

Dispatched == { t \in Tasks : task[t] # "new" }

Finished == { t \in Tasks : task[t] = "done" }

\* C1: when GetSystemInfo returns, every probe goroutine it started has
\* completed: 14 of them in fast mode, 18 in comprehensive mode
C1_FullJoin ==
  pc = "returned" =>
    /\ Dispatched = Finished
    /\ Cardinality(Finished) = IF isFast THEN 14 ELSE 18

C1_Witness ==
  /\ pc = "returned"
  /\ ~isFast
  /\ Cardinality(Finished) = 18
  /\ wg = 0

\* C2: in both modes and whatever fails, GetSystemInfo eventually returns
C2_Terminates == <>(pc = "returned")

C2_Witness == pc = "returned" /\ failing = Sources /\ queue = << >>

SlowOnlyFields == { "CPUUsage", "OpenPorts", "Packages", "Languages", "Temperature" }

\* C3: in fast mode CPUUsage, OpenPorts, Packages, Languages and Temperature
\* are never assigned: they are empty at every moment, and at the return
C3_FastSkipsSlowFields ==
  isFast => \A f \in SlowOnlyFields : writes[f] = << >> /\ info[f] = ""

C3_Witness ==
  /\ isFast
  /\ pc = "returned"
  /\ failing = {}
  /\ \A f \in Fields \ SlowOnlyFields : info[f] # ""

FastTier ==
  { "Host", "CPU", "Memory", "Shell", "GPU", "Disk", "IPAddress", "Locale",
    "Resolution", "WindowManager", "DE", "Terminal", "Go", "Virtualization" }

SlowTier == { "OpenPorts", "Packages", "Languages", "Temperature" }

\* C4: the probes started depend on the mode alone: the whole fast tier in
\* both modes, the slow tier exactly in comprehensive mode
C4_DispatchByMode ==
  /\ Dispatched \cap SlowTier # {} => ~isFast
  /\ pc \in { "wait", "returned" } =>
       Dispatched = FastTier \cup (IF isFast THEN {} ELSE SlowTier)

C4_Witness ==
  /\ pc = "wait"
  /\ ~isFast
  /\ Dispatched = FastTier \cup SlowTier
  /\ failing = {"host.Info"}

\* the assignment targets of every probe goroutine
Targets == [t \in Tasks |-> TaskTargets(t)]

\* C5: during one pass every field is assigned at most once and by one
\* goroutine only; no two goroutines share an assignment target, and no
\* goroutine reads a field another goroutine assigns
C5_DisjointWrites ==
  /\ \A f \in Fields :
       /\ Len(writes[f]) <= 1
       /\ \A i \in 1..Len(writes[f]) : f \in Targets[writes[f][i]]
  /\ \A t1 \in Dispatched : \A t2 \in Dispatched \ {t1} :
       Targets[t1] \cap Targets[t2] = {}
  /\ \A r \in reads : \A t \in Tasks \ {r[1]} : r[2] \notin Targets[t]

C5_Witness ==
  /\ pc = "returned"
  /\ ~isFast
  /\ \A f \in Fields : Len(writes[f]) = 1

\* C6: when exactly one underlying source fails, the snapshot returned in
\* comprehensive mode has that one field absent and every other field as on
\* success: at most one field is left empty
C6_OneFailureOneField ==
  (pc = "returned" /\ ~isFast /\ Cardinality(failing) = 1) =>
    Cardinality({ f \in Fields : info[f] = "" }) <= 1

-----------------------------------------------------------------------------
(* Properties of getOpenPorts *)

\* the example of six listeners on wildcard addresses: ports 22, 80, 8080,
\* 3000, 5432 and 9000
WildcardExample == [i \in 1..6 |-> SocketsOf(i, "any")[1]]

\* C7: with listeners on wildcard addresses on ports 22, 80, 8080, 3000, 5432
\* and 9000 and nothing else, getOpenPorts returns "22, 80, 3000, 5432, 8080..."
C7_WildcardPortsReported ==
  (portsPc = "done" /\ ~Failed("net.Connections") /\ conns = WildcardExample) =>
    Text(portsOut) = "22, 80, 3000, 5432, 8080..."

\* the distinct port numbers of the sockets that pass the filter
PassingPorts == { conns[i].port : i \in { j \in 1..Len(conns) : PortFilter(conns[j]) } }

\* the i-th smallest element of a set of numbers
NthSmallest(P, i) == CHOOSE p \in P : Cardinality({ q \in P : q < p }) = i - 1

\* the listing of a set of ports: ascending, five at most, "..." after five
\* when there are more
PortListing(P) ==
  LET n     == Cardinality(P)
      shown == IF n > 5 THEN 5 ELSE n
  IN  IF n = 0 THEN bNone
      ELSE Join([i \in 1..shown |-> Itoa(NthSmallest(P, i))], bCommaSpace)
           \o (IF n > 5 THEN bEllipsis ELSE << >>)

\* C8: getOpenPorts lists each distinct port that passed the filter once, in
\* ascending numeric order, five at most, with "..." exactly when more than
\* five passed, and returns "None" when none passed
C8_PortListing ==
  (portsPc = "done" /\ ~Failed("net.Connections")) => portsOut = PortListing(PassingPorts)

C8_Witness ==
  /\ portsPc = "done"
  /\ ~Failed("net.Connections")
  /\ Cardinality(PassingPorts) > 5
  /\ Cardinality({ j \in 1..Len(conns) : PortFilter(conns[j]) }) > Cardinality(PassingPorts)
  /\ SubSeq(portsOut, Len(portsOut) - 2, Len(portsOut)) = bEllipsis

-----------------------------------------------------------------------------
(* Properties of getPackageCounts *)

\* the number the count command of manager n printed: [ok, val]
CountOf(n) ==
  IF cmdOut[n].err THEN [ok |-> FALSE, val |-> 0] ELSE Atoi(TrimSpace(cmdOut[n].out))

\* the entries of the managers of the GOOS whose executable is resolvable and
\* whose command prints an integer greater than 0
SurvivingEntries ==
  LET cs == Checkers(goos)
  IN  { PackageEntry(cs[i].name, CountOf(Text(cs[i].name)).val) :
          i \in { j \in 1..Len(cs) :
                    /\ ExeOf(Text(cs[j].name)) \in lookPath
                    /\ CountOf(Text(cs[j].name)).ok
                    /\ CountOf(Text(cs[j].name)).val > 0 } }

\* the i-th smallest element of a set of strings
NthString(S, i) == CHOOSE x \in S : Cardinality({ y \in S : StrLess(y, x) }) = i - 1

\* the elements of a set of strings in ascending order
Ascending(S) == [i \in 1..Cardinality(S) |-> NthString(S, i)]

\* C9: getPackageCounts returns the entries "Manager (count)" of the managers
\* whose executable is resolvable and whose output is an integer greater than
\* 0, sorted and joined by ", ", and "None detected" when there is none
C9_PackageEntries ==
  pkgPc = "done" =>
    pkgOut = IF SurvivingEntries = {} THEN bNoneDetected
             ELSE Join(Ascending(SurvivingEntries), bCommaSpace)

\* the same on the GOOS values other than windows
C9_ExceptWindows == goos # "windows" => C9_PackageEntries

-----------------------------------------------------------------------------
(* Properties of getInstalledLanguages *)

\* the candidates whose executable is resolvable
Found == { i \in LangIds : LookPathOk(LangCmd(Langs[i])) }

\* C10: getInstalledLanguages returns after all 7 checks have finished, with
\* the sorted list of the candidates found, each once, or "None"; on the way
\* the list holds every found candidate whose check has finished, once
C10_SortedFound ==
  /\ \A i \in Found : langTask[i] = "done" => \E k \in 1..Len(installed) : installed[k] = Langs[i]
  /\ \A k1, k2 \in 1..Len(installed) : k1 # k2 => installed[k1] # installed[k2]
  /\ langPc = "done" =>
       /\ \A i \in LangIds : langTask[i] = "done"
       /\ langOut = IF Found = {} THEN bNone
                    ELSE Join(Ascending({ Langs[i] : i \in Found }), bCommaSpace)

C10_Witness ==
  /\ langPc = "done"
  /\ Cardinality(Found) = 7
  /\ Text(langOut) = "Go, Java, Node, PHP, Python, Ruby, Rust"

-----------------------------------------------------------------------------
(* Properties of the snapshot and of the probes *)

\* the fields some goroutine has assigned
Assigned == { f \in Fields : writes[f] # << >> }

\* C11: for a given mode the set of fields that were assigned by the time of
\* the return is the same in every run, whichever sources fail: every field
\* of the mode
C11_SameFieldSet ==
  pc = "returned" => Assigned = IF isFast THEN Fields \ SlowOnlyFields ELSE Fields

\* the fields goroutine t has assigned
WrittenBy(t) == { f \in Fields : \E i \in 1..Len(writes[f]) : writes[f][i] = t }

\* C12: every dispatched goroutine is mapped to exactly one field: when it
\* has finished it has written one field and no other
C12_OneFieldPerProbe ==
  \A t \in Finished : Cardinality(WrittenBy(t)) = 1

-----------------------------------------------------------------------------
(* Properties of the goroutines taken step by step *)

\* goroutine t has called wg.Done()
Signalled(t) == task[t] = "done" \/ (task[t] = "mid" /\ TaskSteps(t)[1] = "done")

\* goroutine t has made its assignments
Written(t) == task[t] = "done" \/ (task[t] = "mid" /\ TaskSteps(t)[1] = "write")

\* C13: every goroutine makes its assignments before it signals completion,
\* and once GetSystemInfo has returned the snapshot no step changes it
C13_NoWriteAfterReturn ==
  /\ [](\A t \in Tasks : Signalled(t) => Written(t))
  /\ [][pc = "returned" => info' = info /\ writes' = writes]_vars

C13_Witness ==
  /\ pc = "returned"
  /\ ~isFast
  /\ failing = {}
  /\ \A t \in Tasks : Signalled(t) /\ Written(t)
  /\ \A f \in Fields : info[f] # ""

-----------------------------------------------------------------------------
(* Properties of the suspension points *)

\* C14: whichever probes are suspended, and for however long, every selected
\* probe gets dispatched and the orchestrator reaches its wait, and every
\* probe that is not suspended runs to its end
C14_SiblingsNotBlocked ==
  <>(/\ pc = "wait"
     /\ Dispatched = FastTier \cup (IF isFast THEN {} ELSE SlowTier)
     /\ \A t \in Dispatched : task[t] \in { "done", "blocked" })

C14_Witness ==
  /\ pc = "wait"
  /\ ~isFast
  /\ task["CPU"] = "blocked"
  /\ task["Packages"] = "blocked"
  /\ \A t \in Tasks \ { "CPU", "Packages" } : task[t] = "done"
  /\ \A f \in Fields \ { "CPU", "CPUSpeed", "CoresThreads", "CPUUsage", "Packages" } : info[f] # ""

-----------------------------------------------------------------------------
(* The lookups of getShell, getSystemLocale and getDesktopEnvironment.     *)
(* A probe's result is written as the sequence of the pieces the returned  *)
(* string is put together from, each piece <<source, derivation>>: the     *)
(* source is the environment variable or the command the piece was read    *)
(* from, "const" for a string literal of the code.                         *)

\* shellPath[strings.LastIndex(shellPath, "/")+1:], lowercased, ".exe" trimmed
ShellName(shellPath) ==
  LET slashes == { i \in 1..Len(shellPath) : shellPath[i] = 47 }
      last    == IF slashes = {} THEN 0
                 ELSE CHOOSE i \in slashes : \A j \in slashes : j <= i
      base    == SubSeq(shellPath, last + 1, Len(shellPath))
      lower   == [ i \in 1..Len(base) |->
                     IF base[i] >= 65 /\ base[i] <= 90 THEN base[i] + 32 ELSE base[i] ]
      n       == Len(lower)
  IN  IF n >= 4 /\ SubSeq(lower, n - 3, n) = <<46, 101, 120, 101>>
      THEN SubSeq(lower, 1, n - 4) ELSE lower

\* getShell()
getShell(os, env) ==
  LET from == IF os # "windows" THEN "SHELL"
              ELSE IF env.PSModulePath # << >> THEN "PSModulePath"
              ELSE IF env.ComSpec # << >> THEN "ComSpec"
              ELSE IF env.WT_SESSION # << >> THEN "WT_SESSION"
              ELSE "const"
      shellPath == CASE from = "SHELL"        -> env.SHELL
                     [] from = "PSModulePath" -> <<112, 111, 119, 101, 114, 115, 104, 101, 108, 108>> \* "powershell"
                     [] from = "ComSpec"      -> <<99, 109, 100>>                                     \* "cmd"
                     [] OTHER                 -> << >>
      shellName == ShellName(shellPath)
      version ==
        CASE shellName \in { <<98, 97, 115, 104>>, <<122, 115, 104>>, <<102, 105, 115, 104>> } ->  \* "bash", "zsh", "fish"
               IF Failed("--version") THEN << >>
               ELSE << <<"--version", "first version number of the first line">> >>
          [] shellName = <<112, 111, 119, 101, 114, 115, 104, 101, 108, 108>> ->
               IF Failed("$PSVersionTable") THEN << >>
               ELSE << <<"$PSVersionTable", "output">> >>
          [] OTHER -> << >>
  IN  CASE from = "const" \/ (from = "SHELL" /\ shellPath = << >>) ->
             << <<"const", "Unknown">> >>
        [] from = "WT_SESSION" -> << <<"WT_SESSION", "Windows Terminal">> >>
        [] OTHER -> << <<from, "title of the shell name">> >> \o version

\* getSystemLocale()
getSystemLocale(os, env) ==
  LET from == IF env.LANG # << >> THEN "LANG" ELSE "LC_ALL"
  IN  IF env[from] # << >> THEN << <<from, "text before the first dot">> >>
      ELSE IF os = "windows"
           THEN (IF Failed("Get-Culture") THEN << >> ELSE << <<"Get-Culture", "output">> >>)
           ELSE << <<"const", "Unknown">> >>

\* getDesktopEnvironment()
getDesktopEnvironment(env) ==
  LET from == IF env.XDG_CURRENT_DESKTOP # << >> THEN "XDG_CURRENT_DESKTOP"
              ELSE "DESKTOP_SESSION"
  IN  IF env[from] = << >> THEN << >>
      ELSE << <<from, "title, plasma sessions renamed">> >>

ChainKeys == << "Shell", "Locale", "DE" >>

\* the values the environment variables take
EnvValues ==
  [ SHELL               : { << >>, HostEnviron.SHELL, <<47, 98, 105, 110, 47, 100, 97, 115, 104>> },  \* "/bin/dash"
    LANG                : { << >>, HostEnviron.LANG },
    LC_ALL              : { << >>, <<67>> },                                     \* "C"
    XDG_CURRENT_DESKTOP : { << >>, HostEnviron.XDG_CURRENT_DESKTOP },
    DESKTOP_SESSION     : { << >>, <<112, 108, 97, 115, 109, 97>> },             \* "plasma"
    PSModulePath        : { << >>, <<67, 58, 92, 80, 83>> },                     \* "C:\PS"
    ComSpec             : { << >>, <<99, 109, 100, 46, 101, 120, 101>> },        \* "cmd.exe"
    WT_SESSION          : { << >>, <<49>> } ]

InitChain ==
  /\ goos \in { "linux", "windows" }
  /\ environ \in EnvValues
  /\ failing \in SUBSET { "--version", "$PSVersionTable", "Get-Culture" }
  /\ lookPath = HostLookPath
  /\ cmdOut = HostCmdOut
  /\ conns = HostConns
  /\ uptime = HostUptime
  /\ argv = << >>
  /\ isFast = TRUE
  /\ pc = "probes"
  /\ iter = ChainKeys
  /\ wg = 0
  /\ task = [t \in Tasks |-> "new"]
  /\ queue = << >>
  /\ info = ZeroInfo
  /\ writes = [f \in Fields |-> << >>]
  /\ reads = {}
  /\ PortsIdle /\ LangIdle /\ PkgIdle /\ CliIdle

\* one call of the probe function of the next key
CallProbe ==
  /\ pc = "probes"
  /\ iter # << >>
  /\ info' = [info EXCEPT ![Head(iter)] =
                CASE Head(iter) = "Shell"  -> getShell(goos, environ)
                  [] Head(iter) = "Locale" -> getSystemLocale(goos, environ)
                  [] Head(iter) = "DE"     -> getDesktopEnvironment(environ)]
  /\ writes' = [writes EXCEPT ![Head(iter)] = Append(@, Head(iter))]
  /\ iter' = Tail(iter)
  /\ UNCHANGED <<isFast, pc, wg, task, queue, reads, envVars, cliVars, portVars, langVars, pkgVars>>

SpecChain == InitChain /\ [][CallProbe]_vars

\* the sources of a result: where its pieces were read from
SourcesOf(r) == { r[i][1] : i \in 1..Len(r) } \ { "const" }

\* the sources of a probe in priority order
Chain(os, key) ==
  CASE key = "Shell"  -> IF os = "windows" THEN << "PSModulePath", "ComSpec", "WT_SESSION" >>
                         ELSE << "SHELL" >>
    [] key = "Locale" -> IF os = "windows" THEN << "LANG", "LC_ALL", "Get-Culture" >>
                         ELSE << "LANG", "LC_ALL" >>
    [] key = "DE"     -> << "XDG_CURRENT_DESKTOP", "DESKTOP_SESSION" >>

\* a source succeeds when its variable is set, or its command gives output
Succeeds(src) == IF src \in DOMAIN environ THEN environ[src] # << >> ELSE ~Failed(src)

FirstSucceeding(c) ==
  IF \E i \in 1..Len(c) : Succeeds(c[i])
  THEN { c[CHOOSE i \in 1..Len(c) : Succeeds(c[i]) /\ \A j \in 1..(i - 1) : ~Succeeds(c[j])] }
  ELSE {}

Probed == { k \in Range(ChainKeys) : writes[k] # << >> }

\* C15: the value of a shell, locale or desktop-environment probe is taken
\* from the first source of its priority chain that succeeds, and from that
\* source alone: never from a lower one, never from several at once.
C15_FirstSourceOnly ==
  \A k \in Probed : SourcesOf(info[k]) = FirstSucceeding(Chain(goos, k))

\* C15 without the shell probe holds: the locale and the desktop environment
\* are read from the first variable of their chain that is set.
C15_ExceptShell ==
  \A k \in Probed \ { "Shell" } : SourcesOf(info[k]) = FirstSucceeding(Chain(goos, k))

-----------------------------------------------------------------------------
(* main: flag.Parse(), GetSystemInfo(fastFlag), DisplaySystemInfo(info).   *)
(* A printed line is a tuple: <<"clear">>, <<"title">>, <<"header", c>>,   *)
(* <<"item", key, value>>, <<"blank">>, and on the standard error          *)
(* <<"error">> and <<"usage">>.                                            *)

\* the longest command line of the model
MaxArgs == 2

\* the command lines made of "-f", "--fast", "-h" and "--help"
ArgLists ==
  LET tokens == { <<45, 102>>, <<45, 45, 102, 97, 115, 116>>,
                  <<45, 104>>, <<45, 45, 104, 101, 108, 112>> }
  IN  UNION { [1..n -> tokens] : n \in 0..MaxArgs }

\* flag.Parse() had the shorthand "f" not been registered: -f is then a flag
\* provided but not defined
RECURSIVE ParseFlagsLongOnly(_, _)
ParseFlagsLongOnly(args, fastFlag) ==
  IF args = << >> \/ Len(Head(args)) < 2 \/ Head(args)[1] # 45 \/ Head(args) = <<45, 45>>
  THEN [fastFlag |-> fastFlag, err |-> ""]
  ELSE LET s    == Head(args)
           name == SubSeq(s, (IF s[2] = 45 THEN 3 ELSE 2), Len(s))
       IN  IF name[1] \in {45, 61} THEN [fastFlag |-> fastFlag, err |-> "syntax"]
           ELSE IF name = <<102, 97, 115, 116>>                                \* "fast"
                THEN ParseFlagsLongOnly(Tail(args), TRUE)
           ELSE IF name \in { <<104, 101, 108, 112>>, <<104>> }             \* "help", "h"
                THEN [fastFlag |-> fastFlag, err |-> "help"]
           ELSE [fastFlag |-> fastFlag, err |-> "undefined"]

\* flag.Parse() over the flags "fast" and "f", both bound to fastFlag: the
\* arguments are taken in order; one or two dashes introduce a flag; a name that
\* is not defined is an error, ErrHelp when it is "help" or "h"
RECURSIVE ParseFlags(_, _)
ParseFlags(args, fastFlag) ==
  IF args = << >> \/ Len(Head(args)) < 2 \/ Head(args)[1] # 45 \/ Head(args) = <<45, 45>>
  THEN [fastFlag |-> fastFlag, err |-> ""]
  ELSE LET s    == Head(args)
           name == SubSeq(s, (IF s[2] = 45 THEN 3 ELSE 2), Len(s))
       IN  IF name[1] \in {45, 61} THEN [fastFlag |-> fastFlag, err |-> "syntax"]
           ELSE IF name \in { <<102, 97, 115, 116>>, <<102>> }              \* "fast", "f"
                THEN ParseFlags(Tail(args), TRUE)
           ELSE IF name \in { <<104, 101, 108, 112>>, <<104>> }             \* "help", "h"
                THEN [fastFlag |-> fastFlag, err |-> "help"]
           ELSE [fastFlag |-> fastFlag, err |-> "undefined"]

\* the groups of DisplaySystemInfo: category, then <<key, field>> items
Groups ==
  << [Category |-> "System",
      Items |-> << <<"OS", "OS">>, <<"Kernel", "Kernel">>, <<"Virtualization", "Virtualization">>,
                   <<"Uptime", "Uptime">>, <<"Shell", "Shell">>, <<"Terminal", "Terminal">> >>],
     [Category |-> "Hardware",
      Items |-> << <<"CPU", "CPU">>, <<"GPU", "GPU">>, <<"RAM", "RAM">> >>],
     [Category |-> "Network",
      Items |-> << <<"Hostname", "Hostname">>, <<"IP Address", "IPAddress">> >>],
     [Category |-> "Storage",
      Items |-> << <<"Disk", "Disk">>, <<"Swap", "Swap">> >>],
     [Category |-> "Display",
      Items |-> << <<"Resolution", "Resolution">>, <<"DE", "DE">>, <<"WM", "WindowManager">> >>],
     [Category |-> "Software",
      Items |-> << <<"Packages", "Packages">>, <<"Languages", "Languages">>, <<"Go", "Go">> >>],
     [Category |-> "CPU Stats",
      Items |-> << <<"Cores/Threads", "CoresThreads">>, <<"Speed", "CPUSpeed">>,
                   <<"Usage", "CPUUsage">>, <<"Temperature", "Temperature">> >>],
     [Category |-> "Other",
      Items |-> << <<"Locale", "Locale">>, <<"Ports", "OpenPorts">> >>] >>

\* the condition under which an item is shown
Shown(value) ==
  value \notin { "", "Unknown", "None", "N/A", "0GB/0GB (0.0%)", "0GB / 0GB (0.0%)",
                 "None detected" }

\* groupLines of one group: the header before the first shown item, then the items
GroupLines(i, g) ==
  LET shown == SelectSeq(g.Items, LAMBDA item : Shown(i[item[2]]))
  IN  IF shown = << >> THEN << >>
      ELSE << <<"header", g.Category>> >>
           \o [k \in 1..Len(shown) |-> <<"item", shown[k][1], i[shown[k][2]]>>]

\* the lines DisplaySystemInfo(info, theme) prints
RECURSIVE FormattedLines(_, _)
FormattedLines(i, n) ==
  IF n = 0 THEN << >> ELSE FormattedLines(i, n - 1) \o GroupLines(i, Groups[n])

DisplaySystemInfo(i) ==
  LET lines == FormattedLines(i, Len(Groups))
  IN  << <<"clear">> >> \o (IF lines # << >> THEN << <<"title">> >> ELSE << >>)
      \o lines \o << <<"blank">> >>

InitMain ==
  /\ goos = HostGoos
  /\ lookPath = HostLookPath
  /\ cmdOut = HostCmdOut
  /\ conns = HostConns
  /\ uptime = HostUptime
  /\ environ = HostEnviron
  /\ failing \in { {}, {"cpu.Info"}, Sources \ {"runtime.Version"} }
  /\ argv \in ArgLists
  /\ MainIdle /\ PortsIdle /\ LangIdle /\ PkgIdle
  /\ cliPc = "main"
  /\ output = << >>
  /\ exitCode = -1

\* flag.Parse(), and on success the call gather.GetSystemInfo(fastFlag)
MainParse ==
  /\ cliPc = "main"
  /\ LET r == ParseFlags(argv, FALSE)
     IN  IF r.err = ""
         THEN /\ cliPc' = "gather"
              /\ isFast' = r.fastFlag
              /\ pc' = "start"
              /\ UNCHANGED <<output, exitCode>>
         ELSE /\ cliPc' = "exit"
              /\ output' = output \o (IF r.err = "help" THEN << >> ELSE << <<"error">> >>)
                                  \o << <<"usage">> >>
              /\ exitCode' = IF r.err = "help" THEN 0 ELSE 2
              /\ UNCHANGED <<isFast, pc>>
  /\ UNCHANGED <<iter, wg, task, queue, info, writes, reads, envVars, portVars, langVars, pkgVars>>

\* display.DisplaySystemInfo(info, currentTheme), then main returns
MainDisplay ==
  /\ cliPc = "gather"
  /\ pc = "returned"
  /\ output' = output \o DisplaySystemInfo(info)
  /\ cliPc' = "exit"
  /\ exitCode' = 0
  /\ UNCHANGED <<envVars, mainVars, portVars, langVars, pkgVars>>

NextMain == MainParse \/ Next \/ MainDisplay

SpecMain == InitMain /\ [][NextMain]_vars

\* the source whose failure leaves a field undetermined
SourceOfField(f) ==
  CASE f \in { "OS", "Kernel", "Uptime" } -> "host.Info"
    [] f = "Hostname"                     -> "os.Hostname"
    [] f \in { "CPU", "CPUSpeed" }        -> "cpu.Info"
    [] f = "CoresThreads"                 -> "cpu.Counts"
    [] f = "CPUUsage"                     -> "cpu.Percent"
    [] f = "RAM"                          -> "mem.VirtualMemory"
    [] f = "Swap"                         -> "mem.SwapMemory"
    [] OTHER                              -> SourceOf(f)

\* the fields whose fact could not be determined in this pass
Undetermined == { f \in Fields : info[f] = "" \/ Failed(SourceOfField(f)) }

\* the items of the printed report, as <<key, field>>
Reported ==
  { it \in UNION { Range(Groups[n].Items) : n \in 1..Len(Groups) } :
      \E k \in 1..Len(output) : output[k][1] = "item" /\ output[k][2] = it[1] }

\* C16: once the report is printed, no field whose fact could not be
\* determined has a line in it, and every category header that is printed
\* belongs to a category with at least one line.
C16_MissingDataOmitted ==
  (cliPc = "exit" /\ pc = "returned") =>
    /\ \A it \in Reported : it[2] \notin Undetermined
    /\ \A k \in 1..Len(output) :
         output[k][1] = "header" =>
           \E n \in 1..Len(Groups) :
             /\ Groups[n].Category = output[k][2]
             /\ \E it \in Reported : it \in Range(Groups[n].Items)

\* C16 for the headers alone holds: a category header is printed only
\* together with at least one item of its category.
C16_HeadersOnlyWithItems ==
  (cliPc = "exit" /\ pc = "returned") =>
    \A k \in 1..Len(output) :
      output[k][1] = "header" =>
        /\ k < Len(output)
        /\ output[k + 1][1] = "item"
        /\ \E n \in 1..Len(Groups) :
             /\ Groups[n].Category = output[k][2]
             /\ \E j \in 1..Len(Groups[n].Items) : Groups[n].Items[j][1] = output[k + 1][2]

\* the command line holds -f or --fast
FastGiven ==
  \E k \in 1..Len(argv) : argv[k] \in { <<45, 102>>, <<45, 45, 102, 97, 115, 116>> }

\* the command line holds -h or --help
HelpGiven ==
  \E k \in 1..Len(argv) : argv[k] \in { <<45, 104>>, <<45, 45, 104, 101, 108, 112>> }

\* C17: a collection that runs is in fast mode exactly when -f or --fast is on
\* the command line; with -h or --help no probe is ever dispatched and the
\* program ends with the usage printed and exit status 0; without them the
\* program ends only after the collection returned.
C17_ModeByFlag ==
  /\ pc # "idle" => (isFast <=> FastGiven)
  /\ HelpGiven =>
       /\ pc = "idle" /\ Dispatched = {}
       /\ cliPc = "exit" => exitCode = 0 /\ output = << <<"usage">> >>
  /\ (cliPc = "exit" /\ ~HelpGiven) => pc = "returned"

\* a fast run printed from `kernelview -f`, with no slow probe dispatched
C17_Witness ==
  /\ argv = << <<45, 102>> >>
  /\ cliPc = "exit" /\ exitCode = 0
  /\ pc = "returned" /\ isFast
  /\ Dispatched = FastTier
  /\ Len(output) > 3

-----------------------------------------------------------------------------
(* Properties of the mutex, the barrier and the channel *)

\* the goroutines of getInstalledLanguages between mu.Lock() and mu.Unlock()
InCritical == { i \in LangIds : langTask[i] \in { "locked", "read" } }

\* C18: at most one goroutine of getInstalledLanguages is between mu.Lock()
\* and mu.Unlock(), and it is the holder of the mutex; the list is read for
\* sorting and joining only when every check has signalled completion, and no
\* goroutine changes it afterwards.
C18_AppendExclusive ==
  /\ [](Cardinality(InCritical) <= 1 /\ \A i \in InCritical : mu = i)
  /\ [](langPc = "done" => langWg = 0 /\ \A i \in LangIds : langTask[i] = "done")
  /\ [][langPc = "done" => installed' = installed]_vars

\* python3 holds the mutex in the middle of its append, after another language
\* was appended, while go, found as well, waits at mu.Lock()
C18_Witness ==
  /\ langTask[1] = "read" /\ mu = 1
  /\ langTask[2] = "run" /\ LookPathOk(LangCmd(Langs[2]))
  /\ Len(installed) = 1

\* the dispatched goroutines that have not called wg.Done() yet
Pending == { t \in Dispatched : ~Signalled(t) }

\* C19: the counter of GetSystemInfo's WaitGroup always equals the number of
\* dispatched goroutines that have not signalled completion: each is counted
\* when it is started, none is counted once the orchestrator waits, each takes
\* exactly one off on whatever path it ends, the counter is never negative and
\* it is zero exactly when every dispatched goroutine has signalled.
C19_BarrierCounts ==
  /\ [](wg = Cardinality(Pending) /\ wg >= 0)
  /\ [](wg = 0 <=> \A t \in Dispatched : Signalled(t))
  /\ [][(pc = "wait" \/ pc = "returned") => (wg' =< wg)]_vars
  /\ [][\A t \in Tasks : task[t] = "done" => task'[t] = "done"]_vars

\* gatherHostInfo has left by its early return while the orchestrator waits for
\* goroutines still running
C19_Witness ==
  /\ pc = "wait" /\ ~isFast
  /\ failing = {"host.Info"}
  /\ task["Host"] = "done" /\ writes["OS"] = << >>
  /\ wg = 2 /\ Cardinality(Pending) = 2

\* the results the finished checkers have sent
SentBy(done) ==
  UNION { Range(CheckerSends(Checkers(goos)[i])) : i \in done }

\* C20: in getPackageCounts a checker that is about to send always finds a
\* free slot in the buffer, no checker sends on the closed channel, each sends
\* at most once, the channel is closed only when every checker has finished,
\* the function can always take a next step until it returns, and when it
\* returns the drain loop has received every result that was sent.
C20_ChannelProtocol ==
  LET ids  == 1..Len(Checkers(goos))
      done == { i \in ids : pkgTask[i] = "done" }
  IN  /\ \A i \in ids : pkgTask[i] # "panic"
      /\ \A i \in ids :
           (pkgTask[i] = "run" /\ CheckerSends(Checkers(goos)[i]) # << >>)
             => Len(results) < ResultsCap /\ ~closed
      /\ Len(results) + Len(parts) <= Cardinality(done)
      /\ Range(results) \cup Range(parts) = SentBy(done)
      /\ closed => done = ids
      /\ pkgPc = "done" => results = << >> /\ Range(parts) = SentBy(ids)
      /\ pkgPc # "done" => ENABLED NextPkg

\* every package manager of a Linux host reported a count: the buffer is full
\* when the channel is closed
C20_Witness ==
  /\ goos = "linux"
  /\ pkgPc = "drain" /\ closed
  /\ Len(results) = ResultsCap

-----------------------------------------------------------------------------
(* Properties of the result *)

\* the record after the goroutines of the sequence ts ran one after another
RECURSIVE RunInOrder(_, _)
RunInOrder(i, ts) ==
  IF ts = << >> THEN i ELSE RunInOrder(InfoAfter(i, TaskWrites(Head(ts))), Tail(ts))

\* the snapshot of the mode and of the sources' results, were the selected
\* probes run one by one in the order the code names them
InOrder ==
  RunInOrder(ZeroInfo, << "Host", "CPU", "Memory" >> \o FastKeys
                       \o (IF isFast THEN << >> ELSE SlowKeys))

\* C21: whatever the order the loops start the goroutines in and whatever
\* the order the goroutines run in, the snapshot GetSystemInfo returns is the
\* one the mode and the results of the sources determine: every field has
\* the value a one-by-one run in the code's order gives it.
C21_ScheduleIndependent ==
  pc = "returned" => \A f \in Fields : info[f] = InOrder[f]

\* a comprehensive pass in which nothing failed has returned, with every
\* field set to the value of the one-by-one run
C21_Witness ==
  /\ pc = "returned" /\ ~isFast /\ failing = {}
  /\ info = InOrder
  /\ \A f \in Fields : info[f] # ""

-----------------------------------------------------------------------------
(* gatherHostInfo over the uptimes of the host *)

\* the most whole days of uptime
MaxDays == 2

\* a pass on a host up for d days and r seconds, r on either side of a minute,
\* of an hour and of a day
InitUptime ==
  /\ goos = HostGoos
  /\ lookPath = HostLookPath
  /\ cmdOut = HostCmdOut
  /\ conns = HostConns
  /\ environ = HostEnviron
  /\ argv = << >>
  /\ uptime \in { d * 86400 + r :
                    d \in 0..MaxDays, r \in {0, 59, 60, 3599, 3600, 86399} }
  /\ failing = {}
  /\ isFast = FALSE
  /\ pc = "start"
  /\ iter = << >>
  /\ wg = 0
  /\ task = [t \in Tasks |-> "new"]
  /\ queue = << >>
  /\ info = ZeroInfo
  /\ writes = [f \in Fields |-> << >>]
  /\ reads = {}
  /\ PortsIdle /\ LangIdle /\ PkgIdle /\ CliIdle

SpecUptime == InitUptime /\ [][Next]_vars

\* the text of "D days, H hours", "H hours, M minutes" or "M minutes", the
\* form chosen by the magnitude of u
UptimeForm(u) ==
  LET D == u \div 86400
      H == (u \div 3600) % 24
      M == (u \div 60) % 60
  IN  IF u >= 86400 THEN Text(Itoa(D)) \o " days, " \o Text(Itoa(H)) \o " hours"
      ELSE IF u >= 3600 THEN Text(Itoa(H)) \o " hours, " \o Text(Itoa(M)) \o " minutes"
      ELSE Text(Itoa(M)) \o " minutes"

\* C22: once gatherHostInfo ran with the host query succeeding, info.Uptime
\* is "D days, H hours" when the uptime u is at least 86400 seconds, else
\* "H hours, M minutes" when it is at least 3600, else "M minutes", with
\* D = u div 86400, H = (u div 3600) mod 24 in 0..23 and M = (u div 60) mod 60
\* in 0..59.
C22_UptimeForm ==
  (task["Host"] = "done" /\ ~Failed("host.Info")) =>
    /\ info["Uptime"] = UptimeForm(uptime)
    /\ (uptime \div 3600) % 24 \in 0..23
    /\ (uptime \div 60) % 60 \in 0..59

\* a host up for 1 day, 23 hours, 59 minutes and 59 seconds reports
\* "1 days, 23 hours"
C22_Witness ==
  /\ pc = "returned"
  /\ uptime = 2 * 86400 - 1
  /\ info["Uptime"] = "1 days, 23 hours"

====
